---- MODULE Spec2Model ----
(***************************************************************************)
(* A model of the multilayer transmission-line engine of MLModel:          *)
(* mlmodel/tlmatrix.py (TLmatrix) and mlmodel/system.py (MLsystem).        *)
(*                                                                         *)
(* Numbers.  The code computes with IEEE complex floats.  The model        *)
(* computes exactly, with Gaussian rationals (a + b*j)/n written           *)
(* <<a, b, n>>, n >= 1, in lowest terms, on an input grid on which every   *)
(* function the code calls has an exact value: angles 0 and pi/2,          *)
(* dielectric constants 1 and 25/16, thicknesses and frequencies that put  *)
(* every phase on a quarter turn.  A result that numpy reports as inf or   *)
(* nan (division by zero, arcsin outside [-1, 1]) is the single value NaN, *)
(* which every later operation propagates.                                 *)
(*                                                                         *)
(* Values.  A value is [py, shape, dat]: py tells a plain Python number    *)
(* from a numpy value, shape is <<>> for a scalar, <<k>> for a vector,     *)
(* <<f, k>> for a matrix; dat is always indexed [row][column], with one    *)
(* row for a scalar or a vector.  Binary operations broadcast as numpy     *)
(* does.                                                                   *)
(***************************************************************************)
EXTENDS Integers, Sequences, FiniteSets, TLC

(***************************************************************************)
(* Exact complex numbers                                                   *)
(***************************************************************************)
NaN == <<0, 0, 0>>

IsNaN(x) == x[3] = 0

AbsInt(a) == IF a < 0 THEN -a ELSE a

RECURSIVE GCD(_, _)
GCD(a, b) == IF b = 0 THEN a ELSE GCD(b, a % b)

\* (a + b*j)/n in lowest terms with a positive denominator.
Norm(a, b, n) ==
    LET s == IF n < 0 THEN -1 ELSE 1
        g == GCD(GCD(AbsInt(a), AbsInt(b)), AbsInt(n))
    IN  <<(s * a) \div g, (s * b) \div g, (s * n) \div g>>

Q(a, n) == Norm(a, 0, n)

Zero == <<0, 0, 1>>
One == <<1, 0, 1>>
J == <<0, 1, 1>>

IsZero(x) == x[1] = 0 /\ x[2] = 0 /\ x[3] # 0

CAdd(x, y) ==
    IF IsNaN(x) \/ IsNaN(y) THEN NaN
    ELSE Norm(x[1] * y[3] + y[1] * x[3], x[2] * y[3] + y[2] * x[3], x[3] * y[3])

CNeg(x) == <<-x[1], -x[2], x[3]>>

CSub(x, y) == CAdd(x, CNeg(y))

CMul(x, y) ==
    IF IsNaN(x) \/ IsNaN(y) THEN NaN
    ELSE Norm(x[1] * y[1] - x[2] * y[2], x[1] * y[2] + x[2] * y[1], x[3] * y[3])

\* numpy division: a zero divisor gives inf or nan (with a warning), here NaN.
CDiv(x, y) ==
    IF IsNaN(x) \/ IsNaN(y) \/ IsZero(y) THEN NaN
    ELSE IF y[2] = 0 THEN CMul(x, Norm(y[3], 0, y[1]))
    ELSE CMul(x, Norm(y[1] * y[3], -(y[2] * y[3]), y[1] * y[1] + y[2] * y[2]))

\* |x|^2
CAbs2(x) ==
    IF IsNaN(x) THEN NaN
    ELSE Norm(x[1] * x[1] + x[2] * x[2], 0, x[3] * x[3])

CReal(x) == IF IsNaN(x) THEN NaN ELSE Norm(x[1], 0, x[3])

\* x > 1 for a real x
GtOne(x) == x[1] > x[3]

(***************************************************************************)
(* The functions of numpy the code calls, exact on the input grid.  An     *)
(* angle is held as the pair of its sine and cosine, so that np.sin,       *)
(* np.cos and np.arcsin are exact: 0 is (0, 1), pi/2 is (1, 0) and         *)
(* arcsin(4/5) is (4/5, 3/5).  A CASE without OTHER stops TLC on an        *)
(* argument that is off the grid, so no value is ever made up.             *)
(***************************************************************************)
ISqrt(n) == CHOOSE r \in 0..n : r * r = n

\* np.sqrt and x**0.5 of a real x >= 0 with an exact root
Sqrt(x) == IF IsNaN(x) THEN NaN ELSE CASE x[2] = 0 /\ x[1] >= 0 -> Norm(ISqrt(x[1]), 0, ISqrt(x[3]))

Angle0 == [sin |-> Zero, cos |-> One]
AngleHalfPi == [sin |-> One, cos |-> Zero]
AngleNaN == [sin |-> NaN, cos |-> NaN]

Sin(a) == a.sin
Cos(a) == a.cos

\* np.arcsin of a real x: nan (with a warning) outside [-1, 1]
ArcSin(x) ==
    IF IsNaN(x) \/ GtOne(x) \/ GtOne(CNeg(x)) THEN AngleNaN
    ELSE [sin |-> x, cos |-> Sqrt(CSub(One, CMul(x, x)))]

\* The quarter turn of x half turns: cosh(j*pi*x) = cos(pi*x) and
\* sinh(j*pi*x) = j*sin(pi*x) are exact when 2*x is an integer.
Quarter(x) == CASE x[2] = 0 /\ 2 % x[3] = 0 -> ((2 \div x[3]) * x[1]) % 4

\* np.cosh(j*pi*x)
CoshJPi(x) == IF IsNaN(x) THEN NaN ELSE <<One, Zero, CNeg(One), Zero>>[Quarter(x) + 1]

\* np.sinh(j*pi*x)
SinhJPi(x) == IF IsNaN(x) THEN NaN ELSE <<Zero, J, Zero, CNeg(J)>>[Quarter(x) + 1]

\* np.sin(pi*x)
SinPi(x) == IF IsNaN(x) THEN NaN ELSE <<Zero, One, Zero, CNeg(One)>>[Quarter(x) + 1]

\* np.log, exact only at 1
Log(x) == IF IsNaN(x) THEN NaN ELSE CASE x = One -> Zero

(***************************************************************************)
(* Python and numpy values.  A value is [py, shape, dat]: py tells a plain *)
(* Python number (whose division by zero raises ZeroDivisionError) from a  *)
(* numpy scalar or array (whose division by zero gives inf or nan); shape  *)
(* is <<>> for a scalar, <<k>> for a vector, <<f, k>> for a 2-D array; dat *)
(* is indexed [row][column], one row for a scalar or a vector.  Binary     *)
(* operations broadcast as numpy does.                                     *)
(***************************************************************************)
PyNum(x) == [py |-> TRUE, shape |-> <<>>, dat |-> <<<<x>>>>]

None == [py |-> TRUE, shape |-> <<>>, dat |-> <<>>]

IsNone(v) == v.dat = <<>>

Scalar(x) == [py |-> FALSE, shape |-> <<>>, dat |-> <<<<x>>>>]

\* np.array(s) of a sequence s
Vector(s) == [py |-> FALSE, shape |-> <<Len(s)>>, dat |-> <<s>>]

Rows(v) == Len(v.dat)
Cols(v) == Len(v.dat[1])

Max(a, b) == IF a >= b THEN a ELSE b

\* The shape numpy broadcasts two operands to (the grid never mixes two
\* different lengths other than 1 on one axis).
BroadcastShape(s, t) ==
    IF Len(s) = 0 THEN t
    ELSE IF Len(t) = 0 THEN s
    ELSE IF Len(s) = 1 /\ Len(t) = 1 THEN <<Max(s[1], t[1])>>
    ELSE IF Len(s) = 1 THEN <<t[1], Max(s[1], t[2])>>
    ELSE IF Len(t) = 1 THEN <<s[1], Max(s[2], t[1])>>
    ELSE <<Max(s[1], t[1]), Max(s[2], t[2])>>

At(v, i, k) == v.dat[IF Rows(v) = 1 THEN 1 ELSE i][IF Cols(v) = 1 THEN 1 ELSE k]

\* The rows-by-cols table of F(i, k), as a tuple of tuples
Table(F(_, _), rows, cols) ==
    SubSeq([i \in 1..rows |-> SubSeq([k \in 1..cols |-> F(i, k)], 1, cols)], 1, rows)

\* An elementwise binary operation x op y
Map2(Op(_, _), x, y) ==
    LET F(i, k) == Op(At(x, i, k), At(y, i, k))
    IN  [py |-> x.py /\ y.py,
         shape |-> BroadcastShape(x.shape, y.shape),
         dat |-> Table(F, Max(Rows(x), Rows(y)), Max(Cols(x), Cols(y)))]

\* An elementwise numpy function f(x): the result is a numpy value
Map1(Op(_), x) ==
    LET F(i, k) == Op(x.dat[i][k])
    IN  [py |-> FALSE, shape |-> x.shape, dat |-> Table(F, Rows(x), Cols(x))]

Add(x, y) == Map2(CAdd, x, y)
Sub(x, y) == Map2(CSub, x, y)
Mul(x, y) == Map2(CMul, x, y)
Div(x, y) == Map2(CDiv, x, y)

\* np.outer(u, v): both operands flattened, the result 2-D
Outer(u, v) ==
    LET F(i, k) == CMul(u.dat[1][i], v.dat[1][k])
    IN  [py |-> FALSE, shape |-> <<Cols(u), Cols(v)>>, dat |-> Table(F, Cols(u), Cols(v))]

\* Every entry of x satisfies P
All(P(_), x) == \A i \in 1..Rows(x) : \A k \in 1..Cols(x) : P(x.dat[i][k])

\* np.all(x == y): entry by entry after broadcasting; nan equals nothing
ValuesEqual(x, y) ==
    \A i \in 1..Max(Rows(x), Rows(y)) : \A k \in 1..Max(Cols(x), Cols(y)) :
        ~IsNaN(At(x, i, k)) /\ At(x, i, k) = At(y, i, k)

(***************************************************************************)
(* mlmodel/tlmatrix.py                                                     *)
(***************************************************************************)
\* Speed of light
c == 299792458

\* Free space impedance.  120*pi is irrational; the model takes 2 in its
\* place: the code uses Z_0 only as a nonzero factor of every impedance.
Z_0 == Q(2, 1)

NoExc == "none"

\* What a call gives: a value (exc = NoExc) or a raised exception.
Return(v) == [exc |-> NoExc, val |-> v]
Raise(x) == [exc |-> x, val |-> None]

Square(x) == Mul(x, x)

\* TLmatrix.impedance
impedance(eps, angle, polarization) ==
    IF polarization = "p" THEN
        IF IsNone(eps) THEN Raise("TypeError")
        ELSE Return(Div(Mul(Scalar(Z_0), Map1(Sqrt, Sub(eps, Square(Map1(Sin, angle))))), eps))
    ELSE IF polarization = "s" THEN
        IF IsNone(eps) THEN Raise("TypeError")
        ELSE Return(Div(Scalar(Z_0), Map1(Sqrt, Sub(eps, Square(Map1(Sin, angle))))))
    ELSE Raise("ValueError")

\* A TLmatrix object
Matrix(a, b, cc, dd) == [A |-> a, B |-> b, C |-> cc, D |-> dd]

\* TLmatrix(): the identity matrix, of Python integers
Identity == Matrix(PyNum(One), PyNum(Zero), PyNum(Zero), PyNum(One))

\* Z[np.where(Z == 0)[0]] += 1: np.where(...)[0] holds the ROW index of
\* every zero entry, so 1 is added to every entry of each such row (once,
\* however many zeros the row holds).
ZeroGuard(Z) ==
    LET hit(i) == \E k \in 1..Cols(Z) : IsZero(Z.dat[i][k])
        F(i, k) == IF hit(i) THEN CAdd(Z.dat[i][k], One) ELSE Z.dat[i][k]
    IN  [Z EXCEPT !.dat = Table(F, Rows(Z), Cols(Z))]

\* Snell's law: angle_t = arcsin(real(e_surr**0.5) / real(e**0.5) * sin(angle))
angle_t(eps, eps_surr, angle) ==
    Map1(ArcSin, Mul(Div(Map1(CReal, Map1(Sqrt, eps_surr)), Map1(CReal, Map1(Sqrt, eps))),
                     Map1(Sin, angle)))

\* wavelength = c / frequency
wavelength(frequency) == Div(PyNum(Q(c, 1)), frequency)

\* gamma = 2j * np.outer(pi * e**0.5 / wavelength, cos(angle_t)), held in
\* units of j*pi
gamma(eps, eps_surr, angle, frequency) ==
    Mul(PyNum(Q(2, 1)),
        Outer(Div(Map1(Sqrt, eps), wavelength(frequency)),
              Map1(Cos, angle_t(eps, eps_surr, angle))))

\* The elements of a "layer" matrix from gd = gamma * d and the impedance Z
LayerElements(gd, Z) ==
    Matrix(Map1(CoshJPi, gd), Mul(Map1(SinhJPi, gd), Z),
           Div(Map1(SinhJPi, gd), Z), Map1(CoshJPi, gd))

\* The "layer" branch after Z = self.impedance(e, angle, polarization)
LayerBuild(Z, th, eps, eps_surr, angle, frequency) ==
    IF Z.exc # NoExc THEN Z
    ELSE IF IsNone(th) \/ IsNone(eps_surr) THEN Raise("TypeError")
    ELSE Return(LayerElements(Mul(gamma(eps, eps_surr, angle, frequency), th), Z.val))

\* TLmatrix.__init__, the "layer" branch
LayerMatrix(th, eps, eps_surr, angle, frequency, polarization) ==
    LayerBuild(impedance(eps, angle, polarization), th, eps, eps_surr, angle, frequency)

\* TLmatrix.__init__, the "shunt" branch
ShuntMatrix(th) ==
    IF IsNone(th) THEN Raise("TypeError")
    ELSE IF th.py /\ IsZero(th.dat[1][1]) THEN Raise("ZeroDivisionError")
    ELSE Return(Matrix(PyNum(One), PyNum(Zero), Div(PyNum(One), th), PyNum(One)))

\* Z = 1j * Z_0 * np.outer(d / wavelength, np.log(1 / np.sin(np.pi * e / d)))
GridImpedance(th, eps, frequency) ==
    Mul(Scalar(CMul(J, Z_0)),
        Outer(Div(th, wavelength(frequency)),
              Map1(Log, Div(PyNum(One), Map1(SinPi, Div(eps, th))))))

\* TLmatrix.__init__, the "grid" branch (taken for polarization 'p' only)
GridMatrix(th, eps, frequency) ==
    IF IsNone(th) \/ IsNone(eps) THEN Raise("TypeError")
    ELSE IF th.py /\ eps.py /\ IsZero(th.dat[1][1]) THEN Raise("ZeroDivisionError")
    ELSE Return(Matrix(PyNum(One), PyNum(Zero),
                       Div(PyNum(One), ZeroGuard(GridImpedance(th, eps, frequency))),
                       PyNum(One)))

\* TLmatrix.__init__
TLmatrix(layer_type, th, eps, eps_surr, angle, frequency, polarization) ==
    IF layer_type = "layer" THEN LayerMatrix(th, eps, eps_surr, angle, frequency, polarization)
    ELSE IF layer_type = "shunt" THEN ShuntMatrix(th)
    ELSE IF layer_type = "grid" /\ polarization = "p" THEN GridMatrix(th, eps, frequency)
    ELSE Return(Identity)

\* A slip in __imatmul__: the operands taken in the other order
imatmulSwapped(self, other) ==
    Matrix(Add(Mul(other.A, self.A), Mul(other.B, self.C)),
           Add(Mul(other.A, self.B), Mul(other.B, self.D)),
           Add(Mul(other.C, self.A), Mul(other.D, self.C)),
           Add(Mul(other.C, self.B), Mul(other.D, self.D)))

\* A slip in __imatmul__: B = self.A * other.B + self.B * other.C
imatmulWrongB(self, other) ==
    Matrix(Add(Mul(self.A, other.A), Mul(self.B, other.C)),
           Add(Mul(self.A, other.B), Mul(self.B, other.C)),
           Add(Mul(self.C, other.A), Mul(self.D, other.C)),
           Add(Mul(self.C, other.B), Mul(self.D, other.D)))

\* TLmatrix.__imatmul__: self @= other
imatmul(self, other) ==
    Matrix(Add(Mul(self.A, other.A), Mul(self.B, other.C)),
           Add(Mul(self.A, other.B), Mul(self.B, other.D)),
           Add(Mul(self.C, other.A), Mul(self.D, other.C)),
           Add(Mul(self.C, other.B), Mul(self.D, other.D)))

(***************************************************************************)
(* mlmodel/system.py: the MLsystem object and the calls made on it          *)
(***************************************************************************)
VARIABLES
    e_surr,     \* MLsystem.e_surr
    type,       \* MLsystem.type
    d,          \* MLsystem.d
    e,          \* MLsystem.e
    CTE,        \* MLsystem.CTE
    N,          \* MLsystem.N
    call,       \* the latest rt or RT call on this stack: its arguments, its
                \* outcome and the accumulator M as rt left it
    first,      \* the first rt or RT call on this stack, kept to compare with
    operand,    \* SpecCompose: the matrix composed with the identity
    composed,   \* SpecCompose: the side the identity was on and the result
    Zgrid,      \* SpecGuard: a grid impedance array
    Zguarded,   \* SpecGuard: the array after the zero guard
    added,      \* the arguments of the add calls made so far, in call order
    file,       \* MLparser.file: the lines of the input file
    parserN,    \* MLparser.N: the lines read so far
    mode,       \* MLparser.mode
    radiation,  \* MLparser.frequency, angle, polarization, T and param
    status      \* how far MLparser() is: "idle", "reading", "parsed", or
                \* the exception that ended it

stack == <<e_surr, type, d, e, CTE, N>>
calls == <<call, first>>
pure == <<operand, composed, Zgrid, Zguarded>>
parser == <<file, parserN, mode, radiation, status>>
vars ==
    <<e_surr, type, d, e, CTE, N, call, first, operand, composed, Zgrid, Zguarded,
      added, file, parserN, mode, radiation, status>>

\* The most layers a stack is given
MaxLayers == 2

(***************************************************************************)
(* The input grid                                                          *)
(***************************************************************************)
EpsVacuum == PyNum(Q(1, 1))
EpsDense == PyNum(Q(25, 16))

\* Layers as add receives them, <<layer_type, d, e, cte>>: a quarter-wave
\* slab with a thermal reference, a zero-thickness gap, a shunt, a shorted
\* shunt, a wire grid of period 2 and width 1, and add() without arguments.
LayerInputs ==
    { <<"layer", PyNum(Q(1, 1)), EpsDense, "silicon">>,
      <<"layer", PyNum(Q(0, 1)), EpsVacuum, "None">>,
      <<"shunt", PyNum(Q(2, 1)), None, "None">>,
      <<"shunt", PyNum(Q(0, 1)), None, "None">>,
      <<"grid", PyNum(Q(2, 1)), EpsVacuum, "None">>,
      <<"None", None, None, "None">> }

\* <<angle, frequency>>: K = 2 angles (0 and pi/2) at one frequency, and one
\* angle at F = 2 frequencies (wavelengths 1 m and 1/2 m)
SweepInputs ==
    { <<Vector(<<Angle0, AngleHalfPi>>), Vector(<<Q(c, 1)>>)>>,
      <<Vector(<<Angle0>>), Vector(<<Q(c, 1), Q(2 * c, 1)>>)>> }

PolarizationInputs == {"s", "p", "x"}

TemperatureInputs == {None, PyNum(Q(400, 1))}

\* mlmodel/data/<name>_t.dat: the expansion tables that exist, each a list
\* of <<temperature, fraction>> rows.  There is no table named "None".
ExpansionTables == [silicon |-> <<<<Q(300, 1), Q(0, 1)>>, <<Q(400, 1), Q(1, 1)>>>>]

\* interp1d(T, f)(temperature) at a tabulated temperature
Interp(table, temperature) ==
    LET row == CHOOSE i \in 1..Len(table) : table[i][1] = temperature.dat[1][1]
    IN  Scalar(table[row][2])

\* MLsystem._expansion: np.loadtxt raises OSError for a file that is missing
expansion(n, temperature) ==
    IF CTE[n] \notin DOMAIN ExpansionTables THEN Raise("OSError")
    ELSE IF IsNone(d[n]) THEN Raise("TypeError")
    ELSE Return(Mul(d[n], Add(PyNum(One), Interp(ExpansionTables[CTE[n]], temperature))))

\* The thickness rt builds layer n with
thickness(n, temperature) ==
    IF ~IsNone(temperature) THEN expansion(n, temperature) ELSE Return(d[n])

\* A slip in rt: the accumulator of the previous call is taken up again
rtStartStale == IF call.op = "none" THEN Identity ELSE call.M

\* The accumulator rt starts from: M = TLmatrix()
rtStart == Identity

\* What rt gives when it raises exc after building the layers in used
Raised(exc, acc, used, lookups) ==
    [exc |-> exc, M |-> acc, used |-> used, lookups |-> lookups,
     Z_s |-> None, r |-> None, t |-> None]

\* The loop of rt over layers n..N with accumulator acc; used collects the
\* thickness each layer was built with, lookups the layers _expansion ran for.
RECURSIVE rtLoop(_, _, _, _, _, _, _, _)
RECURSIVE rtLayer(_, _, _, _, _, _, _, _, _)
RECURSIVE rtCompose(_, _, _, _, _, _, _, _, _, _)

\* M @= L for the layer matrix L built with thickness th
rtCompose(n, L, th, acc, used, lookups, angle, frequency, polarization, temperature) ==
    IF L.exc # NoExc THEN Raised(L.exc, acc, Append(used, th), lookups)
    ELSE rtLoop(n + 1, imatmul(acc, L.val), Append(used, th), lookups,
                angle, frequency, polarization, temperature)

\* Layer n, once its thickness th is determined
rtLayer(n, th, acc, used, lookups, angle, frequency, polarization, temperature) ==
    IF th.exc # NoExc THEN Raised(th.exc, acc, used, lookups)
    ELSE rtCompose(n, TLmatrix(type[n], th.val, e[n], e_surr, angle, frequency, polarization),
                   th.val, acc, used, lookups, angle, frequency, polarization, temperature)

rtLoop(n, acc, used, lookups, angle, frequency, polarization, temperature) ==
    IF n > N THEN [exc |-> NoExc, M |-> acc, used |-> used, lookups |-> lookups]
    ELSE rtLayer(n, thickness(n, temperature), acc, used,
                 IF ~IsNone(temperature) THEN lookups \cup {n} ELSE lookups,
                 angle, frequency, polarization, temperature)

\* M.A * Z_s + M.B + M.C * Z_s * Z_s + M.D * Z_s
Denominator(m, Z_s) ==
    Add(Add(Add(Mul(m.A, Z_s), m.B), Mul(Mul(m.C, Z_s), Z_s)), Mul(m.D, Z_s))

\* The reflection coefficient of rt
rCoefficient(m, Z_s) ==
    Div(Sub(Sub(Add(Mul(m.A, Z_s), m.B), Mul(Mul(m.C, Z_s), Z_s)), Mul(m.D, Z_s)),
        Denominator(m, Z_s))

\* The transmission coefficient of rt
tCoefficient(m, Z_s) == Div(Mul(PyNum(Q(2, 1)), Z_s), Denominator(m, Z_s))

\* rt after the loop: the source impedance Z_s, then r and t
rtFinish(loop, Z_s) ==
    IF loop.exc # NoExc THEN Raised(loop.exc, loop.M, loop.used, loop.lookups)
    ELSE IF Z_s.exc # NoExc THEN Raised(Z_s.exc, loop.M, loop.used, loop.lookups)
    ELSE [exc |-> NoExc, M |-> loop.M, used |-> loop.used, lookups |-> loop.lookups,
          Z_s |-> Z_s.val,
          r |-> rCoefficient(loop.M, Z_s.val),
          t |-> tCoefficient(loop.M, Z_s.val)]

\* MLsystem.rt: what the call gives, with the accumulator it leaves
rtResult(angle, frequency, polarization, temperature) ==
    rtFinish(rtLoop(1, rtStart, <<>>, {}, angle, frequency, polarization, temperature),
             impedance(e_surr, angle, polarization))

\* R = np.abs(r)**2, T = np.abs(t)**2
Power(res) ==
    IF res.exc # NoExc THEN res
    ELSE [res EXCEPT !.r = Map1(CAbs2, res.r), !.t = Map1(CAbs2, res.t)]

\* MLsystem.RT
RTResult(angle, frequency, polarization, temperature) ==
    Power(rtResult(angle, frequency, polarization, temperature))

NoCall == [op |-> "none"]

\* The calls made on this stack so far
CallsMade == IF call = NoCall THEN 0 ELSE call.nth

\* The record of a call: r and t hold R and T for a call of RT, M is the
\* accumulator as rt left it, nth counts the calls made on this stack
CallRecord(op, angle, frequency, polarization, temperature, res) ==
    [op |-> op, nth |-> CallsMade + 1, angle |-> angle, frequency |-> frequency,
     polarization |-> polarization, temperature |-> temperature,
     exc |-> res.exc, M |-> res.M, used |-> res.used, lookups |-> res.lookups,
     Z_s |-> res.Z_s, r |-> res.r, t |-> res.t]

\* A Python str, the sequence of its characters, as a value
Str(s) == [str |-> s]
IsStr(v) == "str" \in DOMAIN v

\* MLparser.__init__: the default radiation parameters, 1 THz at normal
\* incidence, polarization 's', no temperature, nothing parametric.  1e12
\* is beyond the integers of the model and is held by name; the parser
\* computes nothing with it.
DefaultRadiation ==
    [frequency |-> Vector(<<"1e12">>), angle |-> Vector(<<Angle0>>),
     polarization |-> Str(<<"s">>), T |-> None, param |-> <<>>]

\* No MLparser is constructed
NoParser ==
    /\ file = <<>>
    /\ parserN = 0
    /\ mode = "INITIAL"
    /\ radiation = DefaultRadiation
    /\ status = "idle"

\* Nothing composed yet
NotComposed == [left |-> <<>>, right |-> <<>>]

\* MLsystem.__init__, with nothing composed or guarded
Init ==
    /\ e_surr \in {EpsVacuum, EpsDense}
    /\ type = <<>>
    /\ d = <<>>
    /\ e = <<>>
    /\ CTE = <<>>
    /\ N = 0
    /\ call = NoCall
    /\ first = NoCall
    /\ operand = Identity
    /\ composed = NotComposed
    /\ Zgrid = Scalar(One)
    /\ Zguarded = <<>>
    /\ added = <<>>
    /\ NoParser

\* A slip in add: the layer is put in front of the stored ones
addInFront(layer_type, th, eps, cte) ==
    /\ N < MaxLayers
    /\ type' = <<layer_type>> \o type
    /\ d' = <<th>> \o d
    /\ e' = <<eps>> \o e
    /\ CTE' = <<cte>> \o CTE
    /\ N' = N + 1
    /\ call' = NoCall
    /\ first' = NoCall
    /\ added' = Append(added, <<layer_type, th, eps, cte>>)
    /\ UNCHANGED <<e_surr, pure, parser>>

\* MLsystem.add
add(layer_type, th, eps, cte) ==
    /\ N < MaxLayers
    /\ type' = Append(type, layer_type)
    /\ d' = Append(d, th)
    /\ e' = Append(e, eps)
    /\ CTE' = Append(CTE, cte)
    /\ N' = N + 1
    /\ call' = NoCall
    /\ first' = NoCall
    /\ added' = Append(added, <<layer_type, th, eps, cte>>)
    /\ UNCHANGED <<e_surr, pure, parser>>

\* A call returns or raises: its record is kept
Respond(op, angle, frequency, polarization, temperature, res) ==
    /\ call' = CallRecord(op, angle, frequency, polarization, temperature, res)
    /\ first' = IF first = NoCall THEN call' ELSE first
    /\ UNCHANGED <<stack, pure, added, parser>>

\* A call of MLsystem.rt
rt(angle, frequency, polarization, temperature) ==
    Respond("rt", angle, frequency, polarization, temperature,
            rtResult(angle, frequency, polarization, temperature))

\* A call of MLsystem.RT
RT(angle, frequency, polarization, temperature) ==
    Respond("RT", angle, frequency, polarization, temperature,
            RTResult(angle, frequency, polarization, temperature))

\* Spec looks at one response call per stack: a call is made when none is
\* recorded, and add clears the record.  Calls that follow calls are the
\* subject of SpecRepeat.
Next ==
    \/ \E l \in LayerInputs : add(l[1], l[2], l[3], l[4])
    \/ /\ call = NoCall
       /\ \E sw \in SweepInputs, p \in PolarizationInputs, T \in TemperatureInputs :
            rt(sw[1], sw[2], p, T)
    \/ /\ call = NoCall
       /\ \E sw \in SweepInputs, p \in PolarizationInputs, T \in TemperatureInputs :
            RT(sw[1], sw[2], p, T)

Spec == Init /\ [][Next]_vars

(***************************************************************************)
(* SpecCompose: __imatmul__ with the identity, on every finite matrix the   *)
(* layer kinds build on the input grid and on matrices of plain numbers    *)
(***************************************************************************)
IsFinite(x) == ~IsNaN(x)

FiniteMatrix(m) ==
    All(IsFinite, m.A) /\ All(IsFinite, m.B) /\ All(IsFinite, m.C) /\ All(IsFinite, m.D)

BuiltMatrices ==
    { b.val : b \in { x \in { TLmatrix(l[1], l[2], l[3], es, sw[1], sw[2], p) :
                                l \in LayerInputs, es \in {EpsVacuum, EpsDense},
                                sw \in SweepInputs, p \in {"s", "p"} } :
                      x.exc = NoExc } }

PlainNumbers == {Zero, One, J, Q(1, 2)}

PlainMatrices ==
    { Matrix(PyNum(a), PyNum(b), PyNum(cc), PyNum(dd)) :
        a \in PlainNumbers, b \in PlainNumbers, cc \in PlainNumbers, dd \in PlainNumbers }

OperandInputs == { m \in BuiltMatrices \cup PlainMatrices : FiniteMatrix(m) }

InitCompose ==
    /\ e_surr = EpsVacuum
    /\ type = <<>>
    /\ d = <<>>
    /\ e = <<>>
    /\ CTE = <<>>
    /\ N = 0
    /\ call = NoCall
    /\ first = NoCall
    /\ operand \in OperandInputs
    /\ composed = NotComposed
    /\ Zgrid = Scalar(One)
    /\ Zguarded = <<>>
    /\ added = <<>>
    /\ NoParser

\* I = TLmatrix(); I @= operand
ComposeLeft ==
    /\ composed.left = <<>>
    /\ composed' = [composed EXCEPT !.left = imatmul(Identity, operand)]
    /\ UNCHANGED <<stack, calls, operand, Zgrid, Zguarded, added, parser>>

\* operand @= TLmatrix()
ComposeRight ==
    /\ composed.right = <<>>
    /\ composed' = [composed EXCEPT !.right = imatmul(operand, Identity)]
    /\ UNCHANGED <<stack, calls, operand, Zgrid, Zguarded, added, parser>>

NextCompose == ComposeLeft \/ ComposeRight

SpecCompose == InitCompose /\ [][NextCompose]_vars

(***************************************************************************)
(* SpecGuard: the zero guard of the grid branch on [frequency x ratio]      *)
(* impedance arrays Z = 1j * Z_0 * np.outer(d / wavelength, v), where v is  *)
(* np.log(1 / np.sin(np.pi * e / d)) for an array e of one or two widths:   *)
(* 0 for the width d/2, a nonzero number for any other width.              *)
(***************************************************************************)
LogValues == {Zero, One, Q(1, 2), Q(2, 1), Q(3, 1)}

RatioInputs ==
    { <<v>> : v \in LogValues } \cup { <<v, w>> : v \in LogValues, w \in LogValues }

GridArrays ==
    { Mul(Scalar(CMul(J, Z_0)), Outer(Div(th, wavelength(sw[2])), Vector(v))) :
        th \in {PyNum(Q(1, 1)), PyNum(Q(2, 1))}, sw \in SweepInputs, v \in RatioInputs }

InitGuard ==
    /\ e_surr = EpsVacuum
    /\ type = <<>>
    /\ d = <<>>
    /\ e = <<>>
    /\ CTE = <<>>
    /\ N = 0
    /\ call = NoCall
    /\ first = NoCall
    /\ operand = Identity
    /\ composed = NotComposed
    /\ Zgrid \in GridArrays
    /\ Zguarded = <<>>
    /\ added = <<>>
    /\ NoParser

\* Z[np.where(Z == 0)[0]] += 1
Guard ==
    /\ Zguarded = <<>>
    /\ Zguarded' = ZeroGuard(Zgrid)
    /\ UNCHANGED <<stack, calls, operand, composed, Zgrid, added, parser>>

NextGuard == Guard

SpecGuard == InitGuard /\ [][NextGuard]_vars

(***************************************************************************)
(* SpecRepeat: calls that follow calls on the same stack                    *)
(***************************************************************************)
MaxCalls == 3

RepeatLayers ==
    { <<"layer", PyNum(Q(1, 1)), EpsDense, "silicon">>,
      <<"shunt", PyNum(Q(2, 1)), None, "None">> }

RepeatSweep == <<Vector(<<Angle0, AngleHalfPi>>), Vector(<<Q(c, 1)>>)>>

InitRepeat ==
    /\ e_surr = EpsVacuum
    /\ type = <<>>
    /\ d = <<>>
    /\ e = <<>>
    /\ CTE = <<>>
    /\ N = 0
    /\ call = NoCall
    /\ first = NoCall
    /\ operand = Identity
    /\ composed = NotComposed
    /\ Zgrid = Scalar(One)
    /\ Zguarded = <<>>
    /\ added = <<>>
    /\ NoParser

NextRepeat ==
    \/ \E l \in RepeatLayers : add(l[1], l[2], l[3], l[4])
    \/ /\ CallsMade < MaxCalls
       /\ \E p \in {"s", "x"}, T \in TemperatureInputs :
              rt(RepeatSweep[1], RepeatSweep[2], p, T)
    \/ /\ CallsMade < MaxCalls
       /\ \E p \in {"s", "x"}, T \in TemperatureInputs :
              RT(RepeatSweep[1], RepeatSweep[2], p, T)

SpecRepeat == InitRepeat /\ [][NextRepeat]_vars

(***************************************************************************)
(* mlmodel/parser.py.  A str is the sequence of its characters, a list of  *)
(* str a sequence of such sequences.  A parsed value is a float (a plain   *)
(* number), a str, an array, or the 50 points of np.linspace.              *)
(***************************************************************************)
Min(a, b) == IF a <= b THEN a ELSE b

\* str.find(ch): the index from 0 of the first ch in s, -1 when there is none
find(s, ch) ==
    IF \E i \in 1..Len(s) : s[i] = ch
    THEN (CHOOSE i \in 1..Len(s) : s[i] = ch /\ \A k \in 1..(i - 1) : s[k] # ch) - 1
    ELSE -1

\* s[:stop]: a negative stop counts from the end
SliceTo(s, stop) ==
    IF stop >= 0 THEN SubSeq(s, 1, Min(stop, Len(s)))
    ELSE SubSeq(s, 1, Max(Len(s) + stop, 0))

\* s[1:-1]
Inner(s) == SubSeq(s, 2, Len(s) - 1)

Whitespace == {" ", "\n"}

\* str.split(): the maximal runs of characters that are not whitespace
RECURSIVE splitFrom(_, _, _, _)
splitFrom(s, i, word, words) ==
    IF i > Len(s) THEN (IF word = <<>> THEN words ELSE Append(words, word))
    ELSE IF s[i] \in Whitespace
         THEN splitFrom(s, i + 1, <<>>, IF word = <<>> THEN words ELSE Append(words, word))
         ELSE splitFrom(s, i + 1, Append(word, s[i]), words)

split(s) == splitFrom(s, 1, <<>>, <<>>)

\* str.split(','): the pieces between the commas, empty pieces included
RECURSIVE splitCommaFrom(_, _, _, _)
splitCommaFrom(s, i, word, words) ==
    IF i > Len(s) THEN Append(words, word)
    ELSE IF s[i] = ","
         THEN splitCommaFrom(s, i + 1, <<>>, Append(words, word))
         ELSE splitCommaFrom(s, i + 1, Append(word, s[i]), words)

splitComma(s) == splitCommaFrom(s, 1, <<>>, <<>>)

\* line[:line.find('#')].split()
Cut(line) == split(SliceTo(line, find(line, "#")))

Digit ==
    [ch \in {"0", "1", "2", "3", "4", "5", "6", "7", "8", "9"} |->
        CASE ch = "0" -> 0 [] ch = "1" -> 1 [] ch = "2" -> 2 [] ch = "3" -> 3
          [] ch = "4" -> 4 [] ch = "5" -> 5 [] ch = "6" -> 6 [] ch = "7" -> 7
          [] ch = "8" -> 8 [] ch = "9" -> 9]

RECURSIVE Decimal(_)
Decimal(s) == IF s = <<>> THEN 0 ELSE 10 * Decimal(SubSeq(s, 1, Len(s) - 1)) + Digit[s[Len(s)]]

\* float(s), for the strings of the input lines: a string of digits is its
\* number, any other string of the input lines is no number
float(s) ==
    IF s # <<>> /\ \A i \in 1..Len(s) : s[i] \in DOMAIN Digit
    THEN Return(PyNum(Q(Decimal(s), 1)))
    ELSE Raise("ValueError: could not convert string to float")

\* [float(i) for i in entries]
RECURSIVE floats(_)
floats(entries) ==
    IF entries = <<>> THEN Return(<<>>)
    ELSE LET x == float(entries[1])
             rest == floats(SubSeq(entries, 2, Len(entries)))
         IN  IF x.exc # NoExc THEN Raise(x.exc)
             ELSE IF rest.exc # NoExc THEN Raise(rest.exc)
             ELSE Return(<<x.val.dat[1][1]>> \o rest.val)

\* np.array(xs) of a list of floats
array(xs) == IF xs.exc # NoExc THEN Raise(xs.exc) ELSE Return(Vector(xs.val))

\* np.linspace(*xs): with a start and a stop, 50 points held by their ends.
\* No input line gives it another number of arguments.
linspace(xs) ==
    IF xs.exc # NoExc THEN Raise(xs.exc)
    ELSE CASE Len(xs.val) = 2 -> Return([linspace |-> xs.val])

IsLinspace(v) == "linspace" \in DOMAIN v

\* MLparser._parse of a str
parseStr(entry) ==
    IF find(entry, "(") # -1 THEN array(floats(splitComma(Inner(entry))))
    ELSE IF find(entry, "[") # -1 THEN linspace(floats(splitComma(Inner(entry))))
    ELSE IF entry \in {<<"s">>, <<"p">>, <<"s", "p">>} THEN Return(Str(entry))
    ELSE float(entry)

\* MLparser._parse of a list
parseList(entry) ==
    IF Len(entry) = 0 THEN Raise("ValueError: Input error")
    ELSE IF Len(entry) = 1 THEN parseStr(entry[1])
    ELSE linspace(floats(entry))

\* isinstance(v, float)
IsFloat(v) == "py" \in DOMAIN v /\ v.py

\* len(v) of a parsed value that is no float
len(v) ==
    IF IsStr(v) THEN Len(v.str)
    ELSE IF IsLinspace(v) THEN 50
    ELSE Cols(v)

\* v * np.pi / 180 and x * 180 / np.pi: the products are held by their
\* operand; a str has no product with a float
Radians(v) == IF IsStr(v) THEN Raise("TypeError") ELSE Return([radians |-> v])
Degrees(x) == [degrees |-> x]

\* What a method of the parser gives: the radiation parameters as it leaves
\* them, with the exception it raised if it raised one
Leaves(rad) == [exc |-> NoExc, rad |-> rad]
Fails(exc, rad) == [exc |-> exc, rad |-> rad]

\* MLparser._param: inp is stored when it is parametric; floating tells
\* isinstance(inp, float), n is len(inp)
param(rad, inp, name, floating, n) ==
    IF Len(rad.param) > 2 THEN Fails("ValueError: Too much parametric input", rad)
    ELSE IF ~floating /\ n > 1
         THEN Leaves([rad EXCEPT !.param = Append(rad.param, <<name, inp>>)])
         ELSE Leaves(rad)

FREQUENCY == <<"F", "R", "E", "Q", "U", "E", "N", "C", "Y">>
ANGLE == <<"A", "N", "G", "L", "E">>
POLARIZATION == <<"P", "O", "L", "A", "R", "I", "Z", "A", "T", "I", "O", "N">>
TEMPERATURE == <<"T", "E", "M", "P", "E", "R", "A", "T", "U", "R", "E">>

\* line[1:]
Tail1(line) == SubSeq(line, 2, Len(line))

\* The FREQUENCY branch, v the parsed entry
radiationFrequency(rad, v) ==
    IF v.exc # NoExc THEN Fails(v.exc, rad)
    ELSE param([rad EXCEPT !.frequency = v.val], v.val, "Hz",
               IsFloat(v.val), IF IsFloat(v.val) THEN 1 ELSE len(v.val))

\* The ANGLE branch, once the angle a is in radians
radiationRadians(rad, v, a) ==
    IF a.exc # NoExc THEN Fails(a.exc, rad)
    ELSE param([rad EXCEPT !.angle = a.val], Degrees(a.val), "deg",
               IsFloat(v), IF IsFloat(v) THEN 1 ELSE len(v))

\* The ANGLE branch, v the parsed entry
radiationAngle(rad, v) ==
    IF v.exc # NoExc THEN Fails(v.exc, rad)
    ELSE radiationRadians(rad, v.val, Radians(v.val))

\* The POLARIZATION branch, v the parsed entry
radiationPolarization(rad, v) ==
    IF v.exc # NoExc THEN Fails(v.exc, rad)
    ELSE Leaves([rad EXCEPT !.polarization = v.val])

\* The TEMPERATURE branch, v the parsed entry
radiationTemperature(rad, v) ==
    IF v.exc # NoExc THEN Fails(v.exc, rad)
    ELSE param([rad EXCEPT !.T = v.val], v.val, "K",
               IsFloat(v.val), IF IsFloat(v.val) THEN 1 ELSE len(v.val))

\* The line starts with no token of the radiation block
radiationOther(rad, number) ==
    IF number.exc # NoExc THEN Fails("ValueError: is not a correct token", rad)
    ELSE Fails("ValueError: A token or %% identifier is missing", rad)

\* MLparser._radiation_mode
radiation_mode(rad, line) ==
    IF line[1] = FREQUENCY THEN radiationFrequency(rad, parseList(Tail1(line)))
    ELSE IF line[1] = ANGLE THEN radiationAngle(rad, parseList(Tail1(line)))
    ELSE IF line[1] = POLARIZATION THEN radiationPolarization(rad, parseList(Tail1(line)))
    ELSE IF line[1] = TEMPERATURE THEN radiationTemperature(rad, parseList(Tail1(line)))
    ELSE radiationOther(rad, float(line[1]))

\* MLparser.database
database == {<<"s", "i", "l", "i", "c", "o", "n">>, <<"a", "l", "u", "m", "i", "n", "u", "m">>}

\* The names _system_mode takes for a dielectric constant of 1
Air == {<<"a", "i", "r">>, <<"v", "a", "c", "u", "u", "m">>, <<"e", "m", "p", "t", "y">>}

\* str.lower(), on the letters of the input lines
LowerCase(ch) ==
    CASE ch = "A" -> "a" [] ch = "C" -> "c" [] ch = "E" -> "e" [] ch = "F" -> "f"
      [] ch = "G" -> "g" [] ch = "I" -> "i" [] ch = "L" -> "l" [] ch = "M" -> "m"
      [] ch = "N" -> "n" [] ch = "O" -> "o" [] ch = "P" -> "p" [] ch = "Q" -> "q"
      [] ch = "R" -> "r" [] ch = "T" -> "t" [] ch = "U" -> "u" [] ch = "Y" -> "y"
      [] ch = "Z" -> "z" [] OTHER -> ch

lower(s) == [i \in 1..Len(s) |-> LowerCase(s[i])]

\* mlmodel/data/<name>_e.dat: the tables of dielectric constants that exist,
\* each the columns real and loss
PermittivityTables ==
    [name \in {<<"s", "i", "l", "i", "c", "o", "n">>} |->
        [real |-> Vector(<<Q(12, 1)>>), loss |-> Vector(<<Q(0, 1)>>)]]

\* np.loadtxt(..., unpack=True) of a table of dielectric constants
loadPermittivity(name) ==
    IF name \in DOMAIN PermittivityTables THEN Return(PermittivityTables[name])
    ELSE Raise("OSError")

\* real, loss of the line: 1, 0 for air, the table of a database material,
\* or the parsed second and third entries
permittivity(line) ==
    IF lower(line[2]) \in Air THEN Return([real |-> PyNum(One), loss |-> PyNum(Zero)])
    ELSE IF lower(line[2]) \in database THEN loadPermittivity(lower(line[2]))
    ELSE LET real == parseStr(line[2])
         IN  IF real.exc # NoExc THEN Raise(real.exc)
             ELSE IF Len(line) < 3 THEN Raise("IndexError")
             ELSE LET loss == parseStr(line[3])
                  IN  IF loss.exc # NoExc THEN Raise(loss.exc)
                      ELSE Return([real |-> real.val, loss |-> loss.val])

\* e = real * (1 - 1j * loss), then self.system.add_layer(d, e, cte):
\* MLsystem has an add and no add_layer
systemAddLayer(rl) ==
    IF rl.exc # NoExc THEN rl.exc
    ELSE IF IsStr(rl.val.real) \/ IsStr(rl.val.loss) THEN "TypeError"
    ELSE "AttributeError"

\* MLparser._system_mode: the exception it raises
system_mode(line) ==
    LET th == parseStr(line[1])
    IN  IF th.exc # NoExc THEN th.exc
        ELSE IF Len(line) < 2 THEN "IndexError"
        ELSE systemAddLayer(permittivity(line))

\* The most lines an input file has
MaxLines == 3

NL == "\n"

\* The lines of input files: the identifiers '%' and '%%', a comment, a
\* radiation line, a system line, a line that is no token, and three lines
\* that end the file without a newline
LineInputs ==
    { <<"%", NL>>,
      <<"%", "%", NL>>,
      <<"#", "%", NL>>,
      <<"P", "O", "L", "A", "R", "I", "Z", "A", "T", "I", "O", "N", " ", "p", NL>>,
      <<"1", " ", "a", "i", "r", NL>>,
      <<"x", NL>>,
      <<"%", "%">>,
      <<"%", "%", "x">>,
      <<"1", " ", "a", "i", "r">> }

EndsLine(l) == l[Len(l)] = NL

RECURSIVE FilesOf(_)
FilesOf(n) ==
    IF n = 0 THEN {<<>>}
    ELSE { Append(f, l) : f \in { g \in FilesOf(n - 1) : Len(g) = n - 1 /\ \A i \in 1..(n - 1) : EndsLine(g[i]) },
                          l \in LineInputs } \cup FilesOf(n - 1)

\* The input files: at most MaxLines lines, only the last may lack its newline
Files == FilesOf(MaxLines)

\* MLparser.__init__, up to the call of _read
InitParse ==
    /\ e_surr = EpsVacuum
    /\ type = <<>>
    /\ d = <<>>
    /\ e = <<>>
    /\ CTE = <<>>
    /\ N = 0
    /\ call = NoCall
    /\ first = NoCall
    /\ operand = Identity
    /\ composed = NotComposed
    /\ Zgrid = Scalar(One)
    /\ Zguarded = <<>>
    /\ added = <<>>
    /\ file \in Files
    /\ parserN = 0
    /\ mode = "INITIAL"
    /\ radiation = DefaultRadiation
    /\ status = "reading"

\* A line of the radiation block, after the check for '%%'
ReadRadiation(res) ==
    /\ radiation' = res.rad
    /\ status' = IF res.exc # NoExc THEN res.exc ELSE status
    /\ UNCHANGED mode

\* One turn of the loop of MLparser._read, line the cut line
Read(line) ==
    /\ parserN' = parserN + 1
    /\ IF Len(line) = 0 THEN UNCHANGED <<mode, radiation, status>>
       ELSE IF mode = "INITIAL"
            THEN /\ mode' = IF line[1] = <<"%">> THEN "RADIATION" ELSE mode
                 /\ UNCHANGED <<radiation, status>>
       ELSE IF mode = "RADIATION"
            THEN IF line[1] = <<"%", "%">>
                 THEN mode' = "SYSTEM" /\ UNCHANGED <<radiation, status>>
                 ELSE ReadRadiation(radiation_mode(radiation, line))
       ELSE /\ status' = system_mode(line)
            /\ UNCHANGED <<mode, radiation>>
    /\ UNCHANGED <<stack, calls, pure, added, file>>

\* MLparser._read takes the next line of the file
ReadLine ==
    /\ status = "reading"
    /\ parserN < Len(file)
    /\ Read(Cut(file[parserN + 1]))

\* MLparser._read after the last line: the check of the final mode
EndOfFile ==
    /\ status = "reading"
    /\ parserN = Len(file)
    /\ status' = IF mode # "SYSTEM" THEN "ValueError: Incorrect input file style"
                 ELSE "parsed"
    /\ UNCHANGED <<stack, calls, pure, added, file, parserN, mode, radiation>>

NextParse == ReadLine \/ EndOfFile

SpecParse == InitParse /\ [][NextParse]_vars

(***************************************************************************)
(* Properties of the engine                                                *)
(***************************************************************************)
Answered == call.op # "none"
Returned == Answered /\ call.exc = NoExc
WithTemperature == Answered /\ ~IsNone(call.temperature)

\* The 2x2 product X * Y, written out
MatMul(X, Y) ==
    Matrix(Add(Mul(X.A, Y.A), Mul(X.B, Y.C)),
           Add(Mul(X.A, Y.B), Mul(X.B, Y.D)),
           Add(Mul(X.C, Y.A), Mul(X.D, Y.C)),
           Add(Mul(X.C, Y.B), Mul(X.D, Y.D)))

\* M(Ln): the matrix of stored layer n for the arguments of the recorded call
LayerOf(n) ==
    TLmatrix(type[n], call.used[n], e[n], e_surr,
             call.angle, call.frequency, call.polarization).val

\* Identity * M(L1) * ... * M(Ln), associated from the left
RECURSIVE LeftProduct(_)
LeftProduct(n) == IF n = 0 THEN Identity ELSE MatMul(LeftProduct(n - 1), LayerOf(n))

MatrixValuesEqual(X, Y) ==
    /\ ValuesEqual(X.A, Y.A)
    /\ ValuesEqual(X.B, Y.B)
    /\ ValuesEqual(X.C, Y.C)
    /\ ValuesEqual(X.D, Y.D)

\* C1: when rt returns, the system matrix it has accumulated is
\* Identity * M(L1) * ... * M(LN), the layers taken in insertion order with
\* the first added layer leftmost.
C1_SystemMatrixIsOrderedProduct == Returned => call.M = LeftProduct(N)

\* A returned call on two layers whose matrices do not commute: the product
\* in the other order is a different matrix
C1_Witness ==
    /\ Returned
    /\ N = 2
    /\ FiniteMatrix(call.M)
    /\ ~MatrixValuesEqual(MatMul(LayerOf(2), LayerOf(1)), call.M)

\* C3: in a call with a temperature, a layer without a thermal reference is
\* built with its stored thickness and no expansion table is looked up for it.
C3_NoLookupWithoutReference ==
    WithTemperature =>
        \A n \in 1..N : CTE[n] = "None" =>
            /\ n \notin call.lookups
            /\ n <= Len(call.used)
            /\ call.used[n] = d[n]

HasGrid == \E n \in 1..N : type[n] = "grid"

\* C4: a call with polarization 's' on a stack that contains a grid layer
\* raises the invalid-polarization error.
C4_GridRejectsS ==
    (Answered /\ call.polarization = "s" /\ HasGrid) => call.exc = "ValueError"

ZeroThicknessStack ==
    \A n \in 1..N : type[n] = "layer" /\ ~IsNone(d[n]) /\ All(IsZero, d[n])

FiniteNonzero(x) == ~IsNaN(x) /\ ~IsZero(x)

\* C5: on a stack that is empty or made of zero-thickness 'layer' layers, a
\* returned call with a nonzero source impedance has the identity as system
\* matrix, r = 0 and t = 1 (R = 0 and T = 1 for RT).
C5_TransparentStack ==
    (Returned /\ ZeroThicknessStack /\ All(FiniteNonzero, call.Z_s)) =>
        /\ MatrixValuesEqual(call.M, Identity)
        /\ ValuesEqual(call.r, Scalar(Zero))
        /\ ValuesEqual(call.t, Scalar(One))

\* C6: RT returns R and T of shape [F, K] for every stack.
C6_ShapeIsFrequencyByAngle ==
    (Returned /\ call.op = "RT") =>
        /\ call.r.shape = <<Cols(call.frequency), Cols(call.angle)>>
        /\ call.t.shape = <<Cols(call.frequency), Cols(call.angle)>>

Positive(v) == ~IsNone(v) /\ All(LAMBDA x : ~IsNaN(x) /\ x[2] = 0 /\ x[1] > 0, v)

\* C7: no stored layer lacks its kind or its thickness, and no stored layer
\* of kind 'layer' has a thickness <= 0.
C7_StoredLayersWellFormed ==
    \A n \in 1..N :
        /\ type[n] # "None"
        /\ ~IsNone(d[n])
        /\ type[n] = "layer" => Positive(d[n])

\* C9: a call with a polarization other than 's' and 'p' raises ValueError,
\* whatever the stack.
C9_InvalidPolarizationIsValueError ==
    (Answered /\ call.polarization \notin {"s", "p"}) => call.exc = "ValueError"

ComposedBothWays == composed.left # <<>> /\ composed.right # <<>>

Guarded == Zguarded # <<>>

\* C8: the zero guard turns every entry of Z that is exactly zero into 1 and
\* leaves every other entry as it is, so no entry is zero afterwards.
C8_GuardTouchesOnlyZeros ==
    Guarded =>
        \A i \in 1..Rows(Zgrid) : \A k \in 1..Cols(Zgrid) :
            /\ IsZero(Zgrid.dat[i][k]) => Zguarded.dat[i][k] = One
            /\ ~IsZero(Zgrid.dat[i][k]) => Zguarded.dat[i][k] = Zgrid.dat[i][k]
            /\ ~IsZero(Zguarded.dat[i][k])

SameCall(x, y) ==
    /\ x.op = y.op
    /\ x.angle = y.angle
    /\ x.frequency = y.frequency
    /\ x.polarization = y.polarization
    /\ x.temperature = y.temperature

SameOutcome(x, y) == [x EXCEPT !.nth = y.nth] = y

\* C10: a call of rt or RT leaves e_surr, type, d, e, CTE and N as they
\* were, whether it returns or raises, and a call with the arguments of the
\* first call on the stack has the outcome of the first call, whatever was
\* called in between.
C10_CallsAreReadOnlyAndRepeatable ==
    /\ [][call' # NoCall => UNCHANGED stack]_vars
    /\ [](Answered /\ SameCall(call, first) => SameOutcome(call, first))

\* The third call on a stack of two layers returns, with the arguments of
\* the first
C10_Witness ==
    /\ Returned
    /\ N = 2
    /\ call.nth = MaxCalls
    /\ SameCall(call, first)
    /\ FiniteMatrix(call.M)
    /\ ~MatrixValuesEqual(call.M, Identity)

\* Layer k as the four lists store it
Stored(k) == <<type[k], d[k], e[k], CTE[k]>>

\* C11: the four lists have length N, N is the number of add calls, entry k
\* holds the arguments of the k-th call, and a step that changes the storage
\* appends one layer, leaving the stored layers and e_surr as they were.
C11_StorageIsAppendOnly ==
    /\ [](/\ Len(type) = N
          /\ Len(d) = N
          /\ Len(e) = N
          /\ Len(CTE) = N
          /\ Len(added) = N
          /\ \A k \in 1..N : Stored(k) = added[k])
    /\ [][<<type, d, e, CTE, N>>' # <<type, d, e, CTE, N>> =>
            /\ N' = N + 1
            /\ SubSeq(type', 1, N) = type
            /\ SubSeq(d', 1, N) = d
            /\ SubSeq(e', 1, N) = e
            /\ SubSeq(CTE', 1, N) = CTE
            /\ e_surr' = e_surr]_vars

\* Two different layers are stored, in the order they were added
C11_Witness ==
    /\ N = 2
    /\ Len(added) = 2
    /\ added[1] # added[2]
    /\ Stored(1) = added[1]
    /\ Stored(2) = added[2]

(***************************************************************************)
(* Properties of the parser                                                *)
(***************************************************************************)
\* The words of a line as written: the text before its comment, split
Words(l) == split(IF find(l, "#") = -1 THEN l ELSE SliceTo(l, find(l, "#")))

FirstWord(l) == IF Words(l) = <<>> THEN <<>> ELSE Words(l)[1]

\* The line a step of the parser reads
LineRead == file[parserN + 1]
ReadsLine == parserN' = parserN + 1

\* The first line that starts with '%', and the first after it that starts
\* with '%%'; 0 when there is none
RadiationLine ==
    IF \E i \in 1..Len(file) : FirstWord(file[i]) = <<"%">>
    THEN CHOOSE i \in 1..Len(file) :
            /\ FirstWord(file[i]) = <<"%">>
            /\ \A k \in 1..(i - 1) : FirstWord(file[k]) # <<"%">>
    ELSE 0

SystemLine ==
    IF RadiationLine # 0 /\ \E i \in (RadiationLine + 1)..Len(file) : FirstWord(file[i]) = <<"%", "%">>
    THEN CHOOSE i \in (RadiationLine + 1)..Len(file) :
            /\ FirstWord(file[i]) = <<"%", "%">>
            /\ \A k \in (RadiationLine + 1)..(i - 1) : FirstWord(file[k]) # <<"%", "%">>
    ELSE 0

\* The lines of the system block that are neither empty nor comments
SystemLines ==
    IF SystemLine = 0 THEN {}
    ELSE { k \in (SystemLine + 1)..Len(file) : Words(file[k]) # <<>> }

\* C12: a step that reads a line with words in SYSTEM mode appends exactly
\* one layer to the system, and after a successful parse N is the number of
\* such lines of the file.
C12_OneLayerPerSystemLine ==
    /\ [][(ReadsLine /\ mode = "SYSTEM" /\ Words(LineRead) # <<>>) =>
            /\ N' = N + 1
            /\ Len(type') = N'
            /\ SubSeq(type', 1, N) = type]_vars
    /\ [](status = "parsed" => N = Cardinality(SystemLines))

Ended == status \notin {"idle", "reading"}

\* C13: the mode moves from INITIAL to RADIATION only on a line that starts
\* with '%' and from RADIATION to SYSTEM only on a line that starts with
\* '%%', and makes no other move; a line read in INITIAL changes neither the
\* radiation parameters nor the system; and a parse that ends in another
\* mode than SYSTEM ends with the error of the input file style.
C13_ModeMovesForward ==
    /\ [][mode' # mode =>
            /\ ReadsLine
            /\ \/ mode = "INITIAL" /\ mode' = "RADIATION" /\ FirstWord(LineRead) = <<"%">>
               \/ mode = "RADIATION" /\ mode' = "SYSTEM" /\ FirstWord(LineRead) = <<"%", "%">>]_vars
    /\ [][mode = "INITIAL" => UNCHANGED <<radiation, stack>>]_vars
    /\ []((Ended /\ mode # "SYSTEM") => status = "ValueError: Incorrect input file style")

====
